---------------------------- MODULE Spec2Model ----------------------------
(***************************************************************************)
(* Glutaugenpilz: the main script (Glutaugenpilz.py) and the Prime95 load  *)
(* driver (prime95.py) as a state machine.                                 *)
(*                                                                         *)
(* Spec     the main script from the privilege check to process exit, with *)
(*          the operating system (Prime95 processes appearing and exiting) *)
(*          and the operator (key presses, Ctrl-C) as the environment.     *)
(* SpecP95  Prime95Manager driven by any sequence of start_torture_test /  *)
(*          stop_torture_test calls, with the same environment.            *)
(* SpecZen  ZenStatesManager (zenstates.py) under any sequence of reads    *)
(*          and ppt_limit assignments, with the clock and the hardware.    *)
(* SpecQuadro  QuadroManager (quadro.py) under any sequence of calls of    *)
(*          temperatures, with the clock and the USB device.               *)
(* SpecCsv  CSVLogger (csv_logger.py) under any sequence of calls, with    *)
(*          the clock and the file; its value sources return.              *)
(* SpecCsvSources  CSVLogger with value sources that may raise, at one     *)
(*          reading of the clock.                                          *)
(*                                                                         *)
(* Abstractions: psutil reports every process name as a string (a name of  *)
(* None would make the scans raise AttributeError); file-system calls on   *)
(* the temporary directory do not fail.                                    *)
(***************************************************************************)
EXTENDS Naturals, FiniteSets, Sequences

VARIABLES
    \* Prime95Manager fields (prime95.py 105-108)
    process,        \* 0: None; n > 0: the Popen object of the n-th launch
    running,        \* self.running
    config_dir,     \* 0: None; d > 0: the d-th temporary directory
    \* operating system
    alive,          \* launched processes still running (poll() is None)
    ext,            \* Prime95 processes started by someone else, by kind
    dirs,           \* temporary configuration directories that exist
    nLaunched,      \* processes launched so far
    nDirs,          \* temporary directories created so far
    exeExists,      \* os.path.exists(prime95_path)
    helpOk,         \* "prime95.exe -h" exits with code 0
    \* record of the calls made to the manager
    calls, lastOp, lastResult, loadHist, lastStopFrom,
    lastTestType,   \* test_type of the last call of start_torture_test
    \* main script (Glutaugenpilz.py)
    pc, isAdmin, noCsv, ryzenOk, prime95Obj, loggerOn, prime95_started,
    pendingExc, exitCause, interruptAt, reachedMonitor,
    stopCalls, forcedLogs, rows,
    \* ZenStatesManager (zenstates.py) and the hardware behind it
    last_read_time, \* self.last_read_time, in clock ticks
    tbl,            \* self._cached_power_table
    zNow,           \* time.time(), in clock ticks
    hw,             \* the hardware answers, has no value, or the call fails
    hwLimit,        \* the PPT limit the power table shows, in half watts
    hwPending,      \* a limit the hardware accepted and does not show yet
    hwPower, hwTemp,
    \* record of the last call made to ZenStatesManager
    zOp, zReq, zResult, zOutcome, zCompared, zHwCond,
    zVerifyReads,   \* comparisons of line 296 made by the last assignment
    zShown,         \* the limit the hardware showed when the assignment ended
    zWithin,        \* the last cached read came within cache_lifetime of a refresh
    zAge,           \* clock ticks between the fetch of the value read and the read
    \* the main loop
    temp,           \* temp = ryzen.temperature (line 98)
    \* QuadroManager and QuadroDevice (quadro.py) and the USB device
    quadro_device,  \* self.quadro_device: None, not connected, connected
    q_last_read_time, \* QuadroManager.last_read_time, in clock ticks
    qCurrentTime,   \* current_time of the running _refresh_data_if_needed
    qNow,           \* time.time(), in clock ticks
    qPresent,       \* the device is plugged in
    qPc,            \* where a call of temperatures is
    qIter,          \* parity of the turns of the loop of read_data
    qResult,        \* what the last call of temperatures returned
    \* CSVLogger (csv_logger.py) and its file
    column_names,   \* self.column_names
    value_sources,  \* the keys of self.value_sources
    last_log_time,  \* self.last_log_time, in clock ticks
    file_created,   \* self.file_created
    fileExists,     \* os.path.exists(self.filename)
    file,           \* the rows of the file
    cNow,           \* time.time(), in clock ticks
    cExisted,       \* the file existed before the logger was made
    cSeq,           \* parity of the calls made to the logger
    cOp, cForce, cResult, \* the last call, its force argument, its result
    raises,         \* what calling each value source raises
    cRaised,        \* the last call was left by an exception
    cRow            \* the fields after the timestamp of the row the last call wrote

p95vars  == <<process, running, config_dir>>
osvars   == <<alive, ext, dirs, nLaunched, nDirs, exeExists, helpOk>>
callvars == <<calls, lastOp, lastResult, loadHist, lastStopFrom, lastTestType>>
mainvars == <<pc, isAdmin, noCsv, ryzenOk, prime95Obj, loggerOn, prime95_started,
              pendingExc, exitCause, interruptAt, reachedMonitor,
              stopCalls, forcedLogs, rows, temp>>
zenvars  == <<last_read_time, tbl, zNow, hw, hwLimit, hwPending, hwPower, hwTemp,
              zOp, zReq, zResult, zOutcome, zCompared, zHwCond, zVerifyReads,
              zShown, zWithin, zAge>>
quadvars == <<quadro_device, q_last_read_time, qCurrentTime, qNow, qPresent,
              qPc, qIter, qResult>>
csvvars  == <<column_names, value_sources, last_log_time, file_created,
              fileExists, file, cNow, cExisted, cSeq, cOp, cForce, cResult,
              raises, cRaised, cRow>>
vars     == <<p95vars, osvars, callvars, mainvars, zenvars, quadvars, csvvars>>

\* Calls the driver of SpecP95 makes.
MaxCalls == 4

\* Kinds of foreign Prime95 process: one terminate() ends, and one for which
\* psutil raises AccessDenied.
ExtKinds == {"own", "protected"}

\* The test types a caller may pass; the last one is not valid.
TestTypes == {"Small FFTs", "Large FFTs", "Blend", "Bogus"}

valid_test_types == {"Small FFTs", "Large FFTs", "Blend"}

(***************************************************************************)
(* Prime95Manager                                                          *)
(***************************************************************************)

\* The tracked process is running, or psutil finds a process named prime95
\* (a launched one that is alive, or a foreign one).
is_prime95_running ==
    \/ (process # 0 /\ process \in alive)
    \/ alive # {}
    \/ ext # {}

is_functional ==
    IF ~exeExists THEN FALSE
    ELSE IF is_prime95_running THEN TRUE
    ELSE helpOk

\* A start_torture_test without the two tests of lines 204 and 210.
start_torture_test_unchecked(test_type, up, hideRaises) ==
    /\ config_dir' = nDirs + 1
    /\ dirs' = dirs \cup {nDirs + 1}
    /\ nDirs' = nDirs + 1
    /\ UNCHANGED <<ext, exeExists, helpOk>>
    /\ IF ~exeExists
       THEN /\ lastResult' = FALSE
            /\ UNCHANGED <<process, running, alive, nLaunched>>
       ELSE /\ process' = nLaunched + 1
            /\ nLaunched' = nLaunched + 1
            /\ alive' = IF up THEN alive \cup {nLaunched + 1} ELSE alive
            /\ running' = (up \/ running)
            /\ lastResult' = (running' /\ ~hideRaises)

\* start_torture_test(test_type).  up: the launched process is seen running
\* by the start-up poll; hideRaises: looking for the window raises.
\* Popen raises when the executable does not exist.
start_torture_test(test_type, up, hideRaises) ==
    IF is_prime95_running \/ test_type \notin valid_test_types
    THEN /\ lastResult' = FALSE
         /\ UNCHANGED <<p95vars, osvars>>
    ELSE /\ config_dir' = nDirs + 1
         /\ dirs' = dirs \cup {nDirs + 1}
         /\ nDirs' = nDirs + 1
         /\ UNCHANGED <<ext, exeExists, helpOk>>
         /\ IF ~exeExists
            THEN /\ lastResult' = FALSE
                 /\ UNCHANGED <<process, running, alive, nLaunched>>
            ELSE /\ process' = nLaunched + 1
                 /\ nLaunched' = nLaunched + 1
                 /\ alive' = IF up THEN alive \cup {nLaunched + 1} ELSE alive
                 /\ running' = (up \/ running)
                 /\ lastResult' = (running' /\ ~hideRaises)

\* start_torture_test left by a KeyboardInterrupt while it waits for the
\* window of the process it launched.
start_interrupted ==
    /\ ~is_prime95_running
    /\ exeExists
    /\ config_dir' = nDirs + 1
    /\ dirs' = dirs \cup {nDirs + 1}
    /\ nDirs' = nDirs + 1
    /\ process' = nLaunched + 1
    /\ nLaunched' = nLaunched + 1
    /\ alive' = alive \cup {nLaunched + 1}
    /\ running' = TRUE
    /\ UNCHANGED <<ext, exeExists, helpOk>>

\* stop_torture_test without its "not running: already stopped" return.
stop_torture_test_no_early_return ==
    /\ alive' = {}
    /\ ext' = ext \cap {"protected"}
    /\ IF config_dir # 0 /\ config_dir \in dirs
       THEN dirs' = dirs \ {config_dir} /\ config_dir' = 0
       ELSE UNCHANGED <<dirs, config_dir>>
    /\ running' = FALSE
    /\ lastResult' = TRUE
    /\ UNCHANGED <<process, nLaunched, nDirs, exeExists, helpOk>>

stop_torture_test ==
    IF ~is_prime95_running
    THEN /\ lastResult' = TRUE
         /\ UNCHANGED <<p95vars, osvars>>
    ELSE \* the tracked process is terminated (killed after the timeout), then
         \* every process named prime95 psutil may terminate
         /\ alive' = {}
         /\ ext' = ext \cap {"protected"}
         /\ IF config_dir # 0 /\ config_dir \in dirs
            THEN dirs' = dirs \ {config_dir} /\ config_dir' = 0
            ELSE UNCHANGED <<dirs, config_dir>>
         /\ running' = FALSE
         /\ lastResult' = TRUE
         /\ UNCHANGED <<process, nLaunched, nDirs, exeExists, helpOk>>

\* A call of start_torture_test with its record.
CallStart(test_type, up, hideRaises) ==
    /\ start_torture_test(test_type, up, hideRaises)
    /\ calls' = calls + 1
    /\ lastOp' = "start"
    /\ loadHist' = IF lastResult' THEN "started" ELSE "startFailed"
    /\ lastTestType' = test_type
    /\ UNCHANGED lastStopFrom

\* A call of stop_torture_test with its record.
CallStop ==
    /\ stop_torture_test
    /\ calls' = calls + 1
    /\ lastOp' = "stop"
    /\ lastStopFrom' = loadHist
    /\ loadHist' = IF lastResult' THEN "stopped" ELSE loadHist
    /\ UNCHANGED lastTestType

(***************************************************************************)
(* Environment                                                             *)
(***************************************************************************)

\* A launched process exits by itself.
ProcessExit ==
    /\ \E p \in alive : alive' = alive \ {p}
    /\ UNCHANGED <<p95vars, ext, dirs, nLaunched, nDirs, exeExists, helpOk,
                   callvars, mainvars>>
    /\ UNCHANGED <<zenvars, quadvars, csvvars>>

\* Someone else starts a Prime95 process.
ExternalStart ==
    /\ pc # "exited"
    /\ \E k \in ExtKinds \ ext : ext' = ext \cup {k}
    /\ UNCHANGED <<p95vars, alive, dirs, nLaunched, nDirs, exeExists, helpOk,
                   callvars, mainvars>>
    /\ UNCHANGED <<zenvars, quadvars, csvvars>>

\* A foreign Prime95 process exits.
ExternalExit ==
    /\ pc # "exited"
    /\ \E k \in ext : ext' = ext \ {k}
    /\ UNCHANGED <<p95vars, alive, dirs, nLaunched, nDirs, exeExists, helpOk,
                   callvars, mainvars>>
    /\ UNCHANGED <<zenvars, quadvars, csvvars>>

(***************************************************************************)
(* ZenStatesManager (SpecZen)                                              *)
(*                                                                         *)
(* Time is the value of time.time() in clock ticks.  PPT values are in     *)
(* half watts, so that int(value) is not the identity; 0 stands for None.  *)
(***************************************************************************)

\* Clock ticks in a second.
TicksPerSecond == 2

\* Clock ticks a run lasts.
RunTicks == 6

CACHE_INTERVAL == 1 * TicksPerSecond

\* The clock reading at start: time.time() is far beyond the cache lifetime.
StartTime == CACHE_INTERVAL + 1

\* The last clock reading of a run.
MaxTime == StartTime + RunTicks

\* time.sleep(1) in the ppt_limit setter: at least one second.
SleepTicks == {1 * TicksPerSecond, 1 * TicksPerSecond + 1}

\* Values a caller may assign (1.0 W, 1.5 W, 2.0 W), in half watts.
PptValues == {2, 3, 4}

\* Limits the power table may show at start.
HwLimits == {2, 4}

SensorValues == {1, 2}

HwStates == {"ok", "unavailable", "fail"}

\* How the hardware takes SetPPTLimit: at once, after the verification
\* read, or not at all.
SetResponses == {"applied", "late", "ignored"}

\* int(value)
IntOf(v) == 2 * (v \div 2)

\* self._cached_power_table = None
NoTable == [limit |-> 0, power |-> 0]

\* cpu.powerTable.Table with the limit hwl in it.
HwTable(hwl) ==
    IF hw = "unavailable" THEN NoTable ELSE [limit |-> hwl, power |-> hwPower]

\* A test that refreshes only on demand, whatever the age of the cache.
NeedsRefresh_on_demand(force, now) ==
    force \/ last_read_time = 0

\* The test of _refresh_data_if_needed at clock reading now.
NeedsRefresh(force, now) ==
    force \/ (now - last_read_time > CACHE_INTERVAL)

\* _refresh_data_if_needed(force) at clock reading now, the hardware showing
\* the limit hwl: whether it raises, the cache and last_read_time after it.
RefreshData(force, now, hwl) ==
    IF NeedsRefresh(force, now)
    THEN IF hw = "fail"
         THEN [raised |-> TRUE, tbl |-> tbl, lrt |-> last_read_time]
         ELSE [raised |-> FALSE, tbl |-> HwTable(hwl), lrt |-> now]
    ELSE [raised |-> FALSE, tbl |-> tbl, lrt |-> last_read_time]

\* The ppt_limit getter on the result r of the refresh: any exception,
\* subscripting None included, gives None.
PptLimitOf(r) == IF r.raised \/ r.tbl = NoTable THEN 0 ELSE r.tbl.limit

\* The package_power getter on the result r of the refresh.
PackagePowerOf(r) == IF r.raised \/ r.tbl = NoTable THEN 0 ELSE r.tbl.power

InitZenHw ==
    /\ hw \in HwStates
    /\ hwLimit \in HwLimits
    /\ hwPending = 0
    /\ hwPower \in SensorValues
    /\ hwTemp \in SensorValues

\* ZenStatesManager.__init__, no call made yet.
InitZenManager ==
    /\ last_read_time = 0
    /\ tbl = NoTable
    /\ zOp = "none"
    /\ zReq = 0
    /\ zResult = 0
    /\ zOutcome = "none"
    /\ zCompared = "none"
    /\ zHwCond = "none"
    /\ zVerifyReads = 0
    /\ zShown = 0
    /\ zWithin = FALSE
    /\ zAge = 0

\* The manager is not exercised.
InitZenIdle ==
    /\ InitZenManager
    /\ zNow = StartTime
    /\ hw = "ok"
    /\ hwLimit = 2
    /\ hwPending = 0
    /\ hwPower = 1
    /\ hwTemp = 1

\* manager.ppt_limit (the getter)
ZenGetPptLimit ==
    /\ pc = "zen"
    /\ LET r == RefreshData(FALSE, zNow, hwLimit) IN
           /\ tbl' = r.tbl
           /\ last_read_time' = r.lrt
           /\ zResult' = PptLimitOf(r)
           /\ zAge' = IF PptLimitOf(r) # 0 THEN zNow - r.lrt ELSE 0
    /\ zWithin' = ~(zNow - last_read_time > CACHE_INTERVAL)
    /\ zOp' = "ppt_limit"
    /\ zHwCond' = IF NeedsRefresh(FALSE, zNow) THEN hw ELSE "cached"
    /\ zOutcome' = "returned"
    /\ UNCHANGED <<zNow, hw, hwLimit, hwPending, hwPower, hwTemp, zReq, zCompared,
                   zVerifyReads, zShown>>
    /\ UNCHANGED <<p95vars, osvars, callvars, mainvars, quadvars, csvvars>>

\* manager.package_power
ZenGetPackagePower ==
    /\ pc = "zen"
    /\ LET r == RefreshData(FALSE, zNow, hwLimit) IN
           /\ tbl' = r.tbl
           /\ last_read_time' = r.lrt
           /\ zResult' = PackagePowerOf(r)
           /\ zAge' = IF PackagePowerOf(r) # 0 THEN zNow - r.lrt ELSE 0
    /\ zWithin' = ~(zNow - last_read_time > CACHE_INTERVAL)
    /\ zOp' = "package_power"
    /\ zHwCond' = IF NeedsRefresh(FALSE, zNow) THEN hw ELSE "cached"
    /\ zOutcome' = "returned"
    /\ UNCHANGED <<zNow, hw, hwLimit, hwPending, hwPower, hwTemp, zReq, zCompared,
                   zVerifyReads, zShown>>
    /\ UNCHANGED <<p95vars, osvars, callvars, mainvars, quadvars, csvvars>>

\* manager.temperature: read from the hardware every time, any exception
\* gives None.
ZenGetTemperature ==
    /\ pc = "zen"
    /\ zResult' = IF hw = "ok" THEN hwTemp ELSE 0
    /\ zOp' = "temperature"
    /\ zHwCond' = hw
    /\ zOutcome' = "returned"
    /\ UNCHANGED <<last_read_time, tbl, zNow, hw, hwLimit, hwPending, hwPower,
                   hwTemp, zReq, zCompared, zVerifyReads, zShown, zWithin, zAge>>
    /\ UNCHANGED <<p95vars, osvars, callvars, mainvars, quadvars, csvvars>>

\* An assignment that repeats the verification up to 3 times, a second
\* apart, instead of giving up after the first comparison.
ppt_limit_setter_retrying(value, resp, d) ==
    /\ zOp' = "set"
    /\ zReq' = IntOf(value)
    /\ zHwCond' = hw
    /\ UNCHANGED <<hw, hwPower, hwTemp>>
    /\ IF hw = "fail"
       THEN /\ zOutcome' = "ValueError"
            /\ zCompared' = "none"
            /\ zResult' = 0
            /\ zVerifyReads' = 0
            /\ zShown' = 0
            /\ UNCHANGED <<zWithin, zAge>>
            /\ UNCHANGED <<last_read_time, tbl, zNow, hwLimit, hwPending>>
       ELSE /\ hwLimit' = IF resp = "ignored" THEN hwLimit ELSE IntOf(value)
            /\ hwPending' = IF resp = "ignored" THEN hwPending ELSE 0
            /\ zNow' = zNow + d
            /\ LET r == RefreshData(TRUE, zNow', hwLimit') IN
                   /\ tbl' = r.tbl
                   /\ last_read_time' = r.lrt
                   /\ zResult' = PptLimitOf(r)
                   /\ zAge' = 0
            /\ zWithin' = FALSE
            /\ zCompared' = "fresh"
            /\ zVerifyReads' = IF resp = "applied" /\ hw = "ok" THEN 1
                               ELSE IF resp = "late" /\ hw = "ok" THEN 2
                               ELSE 3
            /\ zOutcome' = IF zResult' = IntOf(value) THEN "ok" ELSE "ValueError"
            /\ zShown' = IF hw = "ok" THEN hwLimit' ELSE 0

\* manager.ppt_limit = value.  resp: how the hardware takes SetPPTLimit;
\* d: the clock ticks time.sleep(1) lasts.
ppt_limit_setter(value, resp, d) ==
    /\ zOp' = "set"
    /\ zReq' = IntOf(value)
    /\ zHwCond' = hw
    /\ UNCHANGED <<hw, hwPower, hwTemp>>
    /\ IF hw = "fail"
       THEN \* SetPPTLimit raises
            /\ zOutcome' = "ValueError"
            /\ zCompared' = "none"
            /\ zResult' = 0
            /\ zVerifyReads' = 0
            /\ zShown' = 0
            /\ UNCHANGED <<zWithin, zAge>>
            /\ UNCHANGED <<last_read_time, tbl, zNow, hwLimit, hwPending>>
       ELSE /\ hwLimit' = IF resp = "applied" THEN IntOf(value) ELSE hwLimit
            /\ hwPending' = IF resp = "applied" THEN 0
                            ELSE IF resp = "late" THEN IntOf(value)
                            ELSE hwPending
            /\ zNow' = zNow + d
            /\ LET r == RefreshData(FALSE, zNow', hwLimit') IN
                   /\ tbl' = r.tbl
                   /\ last_read_time' = r.lrt
                   /\ zResult' = PptLimitOf(r)
                   /\ zAge' = IF PptLimitOf(r) # 0 THEN zNow' - r.lrt ELSE 0
            /\ zWithin' = ~(zNow' - last_read_time > CACHE_INTERVAL)
            /\ zCompared' = IF NeedsRefresh(FALSE, zNow') THEN "fresh" ELSE "stale"
            /\ zVerifyReads' = 1
            /\ zOutcome' = IF zResult' = IntOf(value) THEN "ok" ELSE "ValueError"
            /\ zShown' = IF hw = "ok" THEN hwLimit' ELSE 0

ZenSetPptLimit ==
    /\ pc = "zen"
    /\ \E value \in PptValues, resp \in SetResponses, d \in SleepTicks :
           /\ zNow + d <= MaxTime
           /\ ppt_limit_setter(value, resp, d)
    /\ UNCHANGED <<p95vars, osvars, callvars, mainvars, quadvars, csvvars>>

\* The hardware shows a limit it accepted earlier.
ZenHwApply ==
    /\ pc = "zen"
    /\ hwPending # 0
    /\ hwLimit' = hwPending
    /\ hwPending' = 0
    /\ UNCHANGED <<last_read_time, tbl, zNow, hw, hwPower, hwTemp,
                   zOp, zReq, zResult, zOutcome, zCompared, zHwCond,
                   zVerifyReads, zShown, zWithin, zAge>>
    /\ UNCHANGED <<p95vars, osvars, callvars, mainvars, quadvars, csvvars>>

\* The hardware starts or stops answering.
ZenHwChange ==
    /\ pc = "zen"
    /\ \E h \in HwStates \ {hw} : hw' = h
    /\ UNCHANGED <<last_read_time, tbl, zNow, hwLimit, hwPending, hwPower, hwTemp,
                   zOp, zReq, zResult, zOutcome, zCompared, zHwCond,
                   zVerifyReads, zShown, zWithin, zAge>>
    /\ UNCHANGED <<p95vars, osvars, callvars, mainvars, quadvars, csvvars>>

\* The clock advances.
ZenTick ==
    /\ pc = "zen"
    /\ zNow < MaxTime
    /\ zNow' = zNow + 1
    /\ UNCHANGED <<last_read_time, tbl, hw, hwLimit, hwPending, hwPower, hwTemp,
                   zOp, zReq, zResult, zOutcome, zCompared, zHwCond,
                   zVerifyReads, zShown, zWithin, zAge>>
    /\ UNCHANGED <<p95vars, osvars, callvars, mainvars, quadvars, csvvars>>

(***************************************************************************)
(* QuadroManager and QuadroDevice (SpecQuadro)                             *)
(*                                                                         *)
(* A call of QuadroManager.temperatures goes from "idle" to "called", runs *)
(* _refresh_data_if_needed and either returns ("idle") or enters the loop  *)
(* of QuadroDevice.read_data ("read", "sleep").                            *)
(***************************************************************************)

QuadroConstants_CACHE_INTERVAL == 1 * TicksPerSecond

\* What device.read gives: a packet, nothing (the device is non-blocking),
\* or OSError.
ReadOutcomes == {"data", "nodata", "OSError"}

\* QuadroDevice.__enter__: open succeeds when the device is plugged in; an
\* IOError is caught and leaves is_connected False.
QuadroDevice_enter == IF qPresent THEN "connected" ELSE "unconnected"

\* QuadroManager.__init__ and no call made.
InitQuadroManager ==
    /\ quadro_device = "None"
    /\ q_last_read_time = 0
    /\ qCurrentTime = 0
    /\ qPc = "idle"
    /\ qIter = 0
    /\ qResult = "none"

\* The manager is not exercised.
InitQuadroIdle ==
    /\ InitQuadroManager
    /\ qNow = StartTime
    /\ qPresent = FALSE

\* manager.temperatures is called.
QCall ==
    /\ pc = "quadro"
    /\ qPc = "idle"
    /\ qPc' = "called"
    /\ UNCHANGED <<quadro_device, q_last_read_time, qCurrentTime, qNow, qPresent,
                   qIter, qResult>>
    /\ UNCHANGED <<p95vars, osvars, callvars, mainvars, zenvars, csvvars>>

\* _refresh_data_if_needed() up to the call of read_data, and temperatures
\* when it returns without reading.
QRefresh ==
    /\ pc = "quadro"
    /\ qPc = "called"
    /\ qCurrentTime' = qNow
    /\ IF ~(qNow - q_last_read_time > QuadroConstants_CACHE_INTERVAL)
       THEN \* the cache is valid: parse_temperatures of the last packet
            /\ qResult' = "values"
            /\ qPc' = "idle"
            /\ UNCHANGED quadro_device
       ELSE LET opened == IF quadro_device = "None" THEN QuadroDevice_enter
                          ELSE quadro_device
                \* not connected: reconnect() closes and opens again
                dev == IF opened = "connected" THEN opened ELSE QuadroDevice_enter
            IN  /\ quadro_device' = dev
                /\ IF dev = "connected"
                   THEN qPc' = "read" /\ UNCHANGED qResult
                   ELSE \* return False: [None, None, None, None]
                        qPc' = "idle" /\ qResult' = "allNone"
    /\ UNCHANGED <<q_last_read_time, qNow, qPresent, qIter>>
    /\ UNCHANGED <<p95vars, osvars, callvars, mainvars, zenvars, csvvars>>

\* One turn of the while loop of read_data up to time.sleep: device.read.
QRead ==
    /\ pc = "quadro"
    /\ qPc = "read"
    /\ \E out \in ReadOutcomes :
           /\ ~qPresent => out = "OSError"
           /\ IF out = "data"
              THEN \* the packet is yielded, last_read_time = current_time
                   /\ q_last_read_time' = qCurrentTime
                   /\ qResult' = "values"
                   /\ qPc' = "idle"
                   /\ UNCHANGED qIter
              ELSE IF out = "nodata"
              THEN /\ qPc' = "sleep"
                   /\ UNCHANGED <<q_last_read_time, qResult, qIter>>
              ELSE \* except OSError: continue, the next turn begins
                   /\ qIter' = 1 - qIter
                   /\ UNCHANGED <<q_last_read_time, qResult, qPc>>
    /\ UNCHANGED <<quadro_device, qCurrentTime, qNow, qPresent>>
    /\ UNCHANGED <<p95vars, osvars, callvars, mainvars, zenvars, csvvars>>

\* time.sleep(1) of read_data ends, the loop turns.
QSleep ==
    /\ pc = "quadro"
    /\ qPc = "sleep"
    /\ qPc' = "read"
    /\ UNCHANGED <<quadro_device, q_last_read_time, qCurrentTime, qNow, qPresent,
                   qIter, qResult>>
    /\ UNCHANGED <<p95vars, osvars, callvars, mainvars, zenvars, csvvars>>

\* The device is plugged in.
QPlug ==
    /\ pc = "quadro"
    /\ ~qPresent
    /\ qPresent' = TRUE
    /\ UNCHANGED <<quadro_device, q_last_read_time, qCurrentTime, qNow, qPc,
                   qIter, qResult>>
    /\ UNCHANGED <<p95vars, osvars, callvars, mainvars, zenvars, csvvars>>

\* The device is unplugged.
QUnplug ==
    /\ pc = "quadro"
    /\ qPresent
    /\ qPresent' = FALSE
    /\ UNCHANGED <<quadro_device, q_last_read_time, qCurrentTime, qNow, qPc,
                   qIter, qResult>>
    /\ UNCHANGED <<p95vars, osvars, callvars, mainvars, zenvars, csvvars>>

\* The clock advances.
QTick ==
    /\ pc = "quadro"
    /\ qNow < MaxTime
    /\ qNow' = qNow + 1
    /\ UNCHANGED <<quadro_device, q_last_read_time, qCurrentTime, qPresent, qPc,
                   qIter, qResult>>
    /\ UNCHANGED <<p95vars, osvars, callvars, mainvars, zenvars, csvvars>>

(***************************************************************************)
(* CSVLogger (SpecCsv)                                                     *)
(*                                                                         *)
(* The file is the sequence of its rows.  A row written by the logger      *)
(* records its fields by the columns they belong to, the clock reading of  *)
(* the call that wrote it and whether that call was forced.                *)
(***************************************************************************)

\* Rows the file may hold at most.
MaxRows == 4

\* Clock ticks a run of the logger lasts.
CsvTicks == 3

\* logging_interval: 1.0 second by default.
logging_interval == 1 * TicksPerSecond

\* Names a caller may give to a value source.
SourceNames == {"Tdie", "Ppkg"}

\* Lists a caller may pass to set_column_names.
ColumnLists == {<<"Tdie">>, <<"Ppkg", "Tdie">>}

\* A row that was in the file before the logger was made.
OldRow == [kind |-> "old", cols |-> <<>>, t |-> 0, forced |-> FALSE]

\* header = ['Timestamp'] + self.column_names
HeaderRow == [kind |-> "header", cols |-> <<"Timestamp">> \o column_names,
              t |-> 0, forced |-> FALSE]

\* row = [timestamp] and one field for every column of column_names
DataRow(force) == [kind |-> "data", cols |-> <<"Timestamp">> \o column_names,
                   t |-> cNow, forced |-> force]

\* A file opened for writing instead of appending: what was in it is lost.
create_file_truncating ==
    IF ~file_created THEN <<HeaderRow>> ELSE file

\* _create_file_if_needed: the rows of the file after it.  The file is
\* opened in mode 'a'; the header is written if the file did not exist.
create_file_if_needed ==
    IF ~file_created /\ ~fileExists THEN Append(file, HeaderRow) ELSE file

\* What a call of a value source may raise: nothing, an exception the
\* "except Exception" of line 121 catches, one it does not catch.
RaiseKinds == {"none", "Exception", "KeyboardInterrupt"}

\* Every value source returns.
NoRaise == [name \in SourceNames |-> "none"]

\* A loop over the sources without its try: any exception leaves it.
sources_abort_on_any_raise ==
    \E name \in value_sources : raises[name] # "none"

\* The loop of lines 118-122 is left by an exception: one that is not an
\* Exception, raised by a source of value_sources.
sources_abort ==
    \E name \in value_sources : raises[name] = "KeyboardInterrupt"

\* values[name] after the loop of lines 118-122: what the source returned,
\* or the text "ERROR: ..." made of the exception it raised.
values(name) ==
    IF raises[name] = "Exception"
    THEN [kind |-> "ERROR", of |-> name]
    ELSE [kind |-> "value", of |-> name]

\* values.get(column, "N/A")
values_get(column) ==
    IF column \in value_sources THEN values(column)
    ELSE [kind |-> "N/A", of |-> column]

\* The fields appended to row for the columns of column_names (133-134).
RowValues == [i \in 1 .. Len(column_names) |-> values_get(column_names[i])]

\* A log_values that writes whenever it is called.
log_due_always(force) == TRUE

\* The negation of the test of line 111: the call goes on to write.
log_due(force) ==
    ~(~force /\ cNow - last_log_time < logging_interval)

\* CSVLogger.__init__ with no value source, and the file as it was found.
InitCsvLogger ==
    /\ column_names = <<>>
    /\ value_sources = {}
    /\ last_log_time = 0
    /\ file_created = FALSE
    /\ cSeq = 0
    /\ cOp = "none"
    /\ cForce = FALSE
    /\ cResult = FALSE
    /\ cRaised = FALSE
    /\ cRow = <<>>

\* The logger is not exercised.
InitCsvIdle ==
    /\ InitCsvLogger
    /\ raises = NoRaise
    /\ fileExists = FALSE
    /\ cExisted = FALSE
    /\ file = <<>>
    /\ cNow = StartTime

\* add_value_source(name, source_function)
add_value_source(name) ==
    /\ value_sources' = value_sources \cup {name}
    /\ column_names' = IF \E i \in 1 .. Len(column_names) : column_names[i] = name
                       THEN column_names
                       ELSE Append(column_names, name)
    /\ UNCHANGED <<last_log_time, file_created, fileExists, file>>

\* set_column_names(column_names)
set_column_names(names) ==
    /\ column_names' = names
    /\ UNCHANGED <<value_sources, last_log_time, file_created, fileExists, file>>

\* log_values(force).  An exception other than an Exception raised by a
\* source leaves the call after _create_file_if_needed, with no row
\* written, last_log_time as it was and no value returned.
log_values(force) ==
    /\ IF ~log_due(force)
       THEN /\ cResult' = FALSE
            /\ cRaised' = FALSE
            /\ cRow' = <<>>
            /\ UNCHANGED <<file, file_created, fileExists, last_log_time>>
       ELSE IF sources_abort
       THEN /\ file' = create_file_if_needed
            /\ file_created' = TRUE
            /\ fileExists' = TRUE
            /\ cResult' = FALSE
            /\ cRaised' = TRUE
            /\ cRow' = <<>>
            /\ UNCHANGED last_log_time
       ELSE /\ file' = Append(create_file_if_needed, DataRow(force))
            /\ file_created' = TRUE
            /\ fileExists' = TRUE
            /\ last_log_time' = cNow
            /\ cResult' = TRUE
            /\ cRaised' = FALSE
            /\ cRow' = RowValues
    /\ UNCHANGED <<column_names, value_sources>>

CsvAddValueSource ==
    /\ pc = "csv"
    /\ \E name \in SourceNames : add_value_source(name)
    /\ cOp' = "add_value_source"
    /\ cSeq' = 1 - cSeq
    /\ cRaised' = FALSE
    /\ cRow' = <<>>
    /\ UNCHANGED <<cNow, cExisted, cForce, cResult, raises>>
    /\ UNCHANGED <<p95vars, osvars, callvars, mainvars, zenvars, quadvars>>

CsvSetColumnNames ==
    /\ pc = "csv"
    /\ \E names \in ColumnLists : set_column_names(names)
    /\ cOp' = "set_column_names"
    /\ cSeq' = 1 - cSeq
    /\ cRaised' = FALSE
    /\ cRow' = <<>>
    /\ UNCHANGED <<cNow, cExisted, cForce, cResult, raises>>
    /\ UNCHANGED <<p95vars, osvars, callvars, mainvars, zenvars, quadvars>>

CsvLogValues ==
    /\ pc = "csv"
    /\ \E force \in BOOLEAN :
           /\ log_due(force) => Len(file) + 2 <= MaxRows
           /\ log_values(force)
           /\ cForce' = force
    /\ cOp' = "log_values"
    /\ cSeq' = 1 - cSeq
    /\ UNCHANGED <<cNow, cExisted, raises>>
    /\ UNCHANGED <<p95vars, osvars, callvars, mainvars, zenvars, quadvars>>

\* The clock advances.
CsvTick ==
    /\ pc = "csv"
    /\ cNow < StartTime + CsvTicks
    /\ cNow' = cNow + 1
    /\ UNCHANGED <<column_names, value_sources, last_log_time, file_created,
                   fileExists, file, cExisted, cSeq, cOp, cForce, cResult,
                   raises, cRaised, cRow>>
    /\ UNCHANGED <<p95vars, osvars, callvars, mainvars, zenvars, quadvars>>

\* A value source begins to raise, or to return again.
CsvSourceChange ==
    /\ pc = "csv"
    /\ \E name \in SourceNames, kind \in RaiseKinds :
           /\ raises[name] # kind
           /\ raises' = [raises EXCEPT ![name] = kind]
    /\ UNCHANGED <<column_names, value_sources, last_log_time, file_created,
                   fileExists, file, cNow, cExisted, cSeq, cOp, cForce, cResult,
                   cRaised, cRow>>
    /\ UNCHANGED <<p95vars, osvars, callvars, mainvars, zenvars, quadvars>>

(***************************************************************************)
(* Prime95Manager under any sequence of calls (SpecP95)                    *)
(***************************************************************************)

InitOS ==
    /\ alive = {}
    /\ ext \in SUBSET ExtKinds
    /\ dirs = {}
    /\ nLaunched = 0
    /\ nDirs = 0
    /\ exeExists \in BOOLEAN
    /\ helpOk \in BOOLEAN

\* Prime95Manager.__init__
InitManager ==
    /\ process = 0
    /\ running = FALSE
    /\ config_dir = 0

InitCalls ==
    /\ calls = 0
    /\ lastOp = "none"
    /\ lastResult = FALSE
    /\ loadHist = "never"
    /\ lastStopFrom = "none"
    /\ lastTestType = "none"

InitMainIdle ==
    /\ isAdmin = TRUE
    /\ noCsv = FALSE
    /\ ryzenOk = FALSE
    /\ prime95Obj = FALSE
    /\ loggerOn = FALSE
    /\ prime95_started = "unset"
    /\ pendingExc = "none"
    /\ exitCause = "none"
    /\ interruptAt = "none"
    /\ reachedMonitor = FALSE
    /\ stopCalls = 0
    /\ forcedLogs = 0
    /\ rows = 0
    /\ temp = "unset"

InitP95 ==
    /\ InitOS /\ InitManager /\ InitCalls /\ InitMainIdle
    /\ pc = "driver"
    /\ InitZenIdle
    /\ InitQuadroIdle
    /\ InitCsvIdle

DriverStart ==
    /\ pc = "driver"
    /\ calls < MaxCalls
    /\ \E t \in TestTypes, up \in BOOLEAN, hideRaises \in BOOLEAN :
           CallStart(t, up, hideRaises)
    /\ UNCHANGED mainvars
    /\ UNCHANGED <<zenvars, quadvars, csvvars>>

DriverStop ==
    /\ pc = "driver"
    /\ calls < MaxCalls
    /\ CallStop
    /\ UNCHANGED mainvars
    /\ UNCHANGED <<zenvars, quadvars, csvvars>>

NextP95 == DriverStart \/ DriverStop \/ ProcessExit \/ ExternalStart \/ ExternalExit

SpecP95 == InitP95 /\ [][NextP95]_vars

\* ZenStatesManager under any sequence of calls.
InitZen ==
    /\ alive = {} /\ ext = {} /\ dirs = {} /\ nLaunched = 0 /\ nDirs = 0
    /\ exeExists = TRUE /\ helpOk = TRUE
    /\ InitManager /\ InitCalls /\ InitMainIdle
    /\ pc = "zen"
    /\ InitZenHw /\ InitZenManager
    /\ zNow = StartTime
    /\ InitQuadroIdle
    /\ InitCsvIdle

NextZen ==
    \/ ZenGetPptLimit
    \/ ZenGetPackagePower
    \/ ZenGetTemperature
    \/ ZenSetPptLimit
    \/ ZenHwApply
    \/ ZenHwChange
    \/ ZenTick

SpecZen == InitZen /\ [][NextZen]_vars

\* QuadroManager under any sequence of calls of temperatures.  The steps of
\* a running call are taken as long as they are possible.
InitQuadro ==
    /\ alive = {} /\ ext = {} /\ dirs = {} /\ nLaunched = 0 /\ nDirs = 0
    /\ exeExists = TRUE /\ helpOk = TRUE
    /\ InitManager /\ InitCalls /\ InitMainIdle
    /\ pc = "quadro"
    /\ InitZenIdle
    /\ InitQuadroManager
    /\ qNow = StartTime
    /\ qPresent \in BOOLEAN
    /\ InitCsvIdle

NextQuadro ==
    \/ QCall
    \/ QRefresh
    \/ QRead
    \/ QSleep
    \/ QPlug
    \/ QUnplug
    \/ QTick

SpecQuadro ==
    /\ InitQuadro
    /\ [][NextQuadro]_vars
    /\ WF_vars(QRefresh)
    /\ WF_vars(QRead)
    /\ WF_vars(QSleep)

\* CSVLogger under any sequence of calls, the file absent or already there.
InitCsv ==
    /\ alive = {} /\ ext = {} /\ dirs = {} /\ nLaunched = 0 /\ nDirs = 0
    /\ exeExists = TRUE /\ helpOk = TRUE
    /\ InitManager /\ InitCalls /\ InitMainIdle
    /\ pc = "csv"
    /\ InitZenIdle
    /\ InitQuadroIdle
    /\ InitCsvLogger
    /\ raises = NoRaise
    /\ fileExists \in BOOLEAN
    /\ cExisted = fileExists
    /\ file = IF fileExists THEN <<OldRow>> ELSE <<>>
    /\ cNow = StartTime

NextCsv ==
    \/ CsvAddValueSource
    \/ CsvSetColumnNames
    \/ CsvLogValues
    \/ CsvTick

SpecCsv == InitCsv /\ [][NextCsv]_vars

\* CSVLogger with value sources that may raise, under any sequence of calls
\* made at one reading of the clock.
NextCsvSources ==
    \/ CsvAddValueSource
    \/ CsvSetColumnNames
    \/ CsvLogValues
    \/ CsvSourceChange

SpecCsvSources == InitCsv /\ [][NextCsvSources]_vars

(***************************************************************************)
(* The main script (Spec)                                                  *)
(***************************************************************************)

Init ==
    /\ InitOS /\ InitManager /\ InitCalls
    /\ pc = "admin_check"
    /\ isAdmin \in BOOLEAN
    /\ noCsv \in BOOLEAN
    /\ ryzenOk = FALSE
    /\ prime95Obj = FALSE
    /\ loggerOn = FALSE
    /\ prime95_started = "unset"
    /\ pendingExc = "none"
    /\ exitCause = "none"
    /\ interruptAt = "none"
    /\ reachedMonitor = FALSE
    /\ stopCalls = 0
    /\ forcedLogs = 0
    /\ rows = 0
    /\ temp = "unset"
    /\ InitZenIdle
    /\ InitQuadroIdle
    /\ InitCsvIdle

\* The process ends: sys.exit or an exception nobody catches.
Exit(cause) ==
    /\ pc' = "exited"
    /\ exitCause' = cause

\* line 46: is_admin(); a process without administrative privileges goes
\* on to elevate().
AdminCheck ==
    /\ pc = "admin_check"
    /\ pc' = IF isAdmin THEN "init_managers" ELSE "elevate"
    /\ UNCHANGED exitCause
    /\ UNCHANGED <<p95vars, osvars, callvars, isAdmin, noCsv, ryzenOk, prime95Obj,
                   loggerOn, prime95_started, pendingExc, interruptAt,
                   reachedMonitor, stopCalls, forcedLogs, rows>>
    /\ UNCHANGED <<zenvars, quadvars, csvvars, temp>>

\* An elevate() that returns to its caller when ShellExecuteW raises, the
\* caller going on.
Elevate_returning ==
    /\ pc = "elevate"
    /\ \E shellRaises \in BOOLEAN :
           IF shellRaises
           THEN pc' = "init_managers" /\ UNCHANGED exitCause
           ELSE Exit("elevate")
    /\ UNCHANGED <<p95vars, osvars, callvars, isAdmin, noCsv, ryzenOk, prime95Obj,
                   loggerOn, prime95_started, pendingExc, interruptAt,
                   reachedMonitor, stopCalls, forcedLogs, rows>>
    /\ UNCHANGED <<zenvars, quadvars, csvvars, temp>>

\* lines 47-49 and elevate(): is_admin() is asked again; ShellExecuteW
\* "runas" is called and sys.exit() follows, or it raises and sys.exit(1)
\* follows.  Were is_admin() True, elevate would return to sys.exit(0).
Elevate ==
    /\ pc = "elevate"
    /\ \E shellRaises \in BOOLEAN :
           IF isAdmin THEN Exit("exit0")
           ELSE IF shellRaises THEN Exit("exit1")
           ELSE Exit("elevate")
    /\ UNCHANGED <<p95vars, osvars, callvars, isAdmin, noCsv, ryzenOk, prime95Obj,
                   loggerOn, prime95_started, pendingExc, interruptAt,
                   reachedMonitor, stopCalls, forcedLogs, rows>>
    /\ UNCHANGED <<zenvars, quadvars, csvvars, temp>>

\* lines 51-67: the managers and the logger.  ryzen is None when the first
\* temperature read yields None, prime95 is None when it is not functional.
InitManagers ==
    /\ pc = "init_managers"
    /\ \E t \in BOOLEAN : ryzenOk' = t
    /\ prime95Obj' = is_functional
    /\ loggerOn' = ~noCsv
    /\ pc' = "check_managers"
    /\ UNCHANGED <<p95vars, osvars, callvars, isAdmin, noCsv, prime95_started,
                   pendingExc, exitCause, interruptAt, reachedMonitor,
                   stopCalls, forcedLogs, rows>>
    /\ UNCHANGED <<zenvars, quadvars, csvvars, temp>>

\* A check that lets the script go on without ZenStates.
CheckManagers_going_on ==
    /\ pc = "check_managers"
    /\ pc' = "prompt1"
    /\ UNCHANGED <<p95vars, osvars, callvars, isAdmin, noCsv, ryzenOk, prime95Obj,
                   loggerOn, prime95_started, pendingExc, interruptAt,
                   reachedMonitor, stopCalls, forcedLogs, rows, exitCause>>
    /\ UNCHANGED <<zenvars, quadvars, csvvars, temp>>

\* lines 69-82: without ZenStates display_message(exit_after=True) prompts
\* and exits; without Prime95 or without a logger a message is printed and
\* the script goes on.
CheckManagers ==
    /\ pc = "check_managers"
    /\ pc' = IF ryzenOk THEN "prompt1" ELSE "exit_prompt"
    /\ UNCHANGED exitCause
    /\ UNCHANGED <<p95vars, osvars, callvars, isAdmin, noCsv, ryzenOk, prime95Obj,
                   loggerOn, prime95_started, pendingExc, interruptAt,
                   reachedMonitor, stopCalls, forcedLogs, rows>>
    /\ UNCHANGED <<zenvars, quadvars, csvvars, temp>>

\* display_message, exit_after: the operator presses a key, sys.exit(1).
ExitPrompt ==
    /\ pc = "exit_prompt"
    /\ Exit("exit1")
    /\ UNCHANGED <<p95vars, osvars, callvars, isAdmin, noCsv, ryzenOk, prime95Obj,
                   loggerOn, prime95_started, pendingExc, interruptAt,
                   reachedMonitor, stopCalls, forcedLogs, rows>>
    /\ UNCHANGED <<zenvars, quadvars, csvvars, temp>>

\* display_message, exit_after: Ctrl-C at input() raises KeyboardInterrupt,
\* which nothing catches.
ExitPromptInterrupted ==
    /\ pc = "exit_prompt"
    /\ interruptAt' = pc
    /\ Exit("interrupt")
    /\ UNCHANGED <<p95vars, osvars, callvars, isAdmin, noCsv, ryzenOk, prime95Obj,
                   loggerOn, prime95_started, pendingExc, reachedMonitor,
                   stopCalls, forcedLogs, rows>>
    /\ UNCHANGED <<zenvars, quadvars, csvvars, temp>>

\* line 83: the operator presses a key.
Prompt1 ==
    /\ pc = "prompt1"
    /\ pc' = "start_load"
    /\ UNCHANGED <<p95vars, osvars, callvars, isAdmin, noCsv, ryzenOk, prime95Obj,
                   loggerOn, prime95_started, pendingExc, exitCause, interruptAt,
                   reachedMonitor, stopCalls, forcedLogs, rows>>
    /\ UNCHANGED <<zenvars, quadvars, csvvars, temp>>

\* lines 85-90 with prime95 = None: prime95.start_torture_test raises
\* AttributeError, outside any try.
StartLoadNoManager ==
    /\ pc = "start_load"
    /\ ~prime95Obj
    /\ Exit("exception")
    /\ UNCHANGED <<p95vars, osvars, callvars, isAdmin, noCsv, ryzenOk, prime95Obj,
                   loggerOn, prime95_started, pendingExc, interruptAt,
                   reachedMonitor, stopCalls, forcedLogs, rows>>
    /\ UNCHANGED <<zenvars, quadvars, csvvars, temp>>

\* lines 85-90: the load is started; a failure prints a message only.
StartLoad ==
    /\ pc = "start_load"
    /\ prime95Obj
    /\ \E up \in BOOLEAN, hideRaises \in BOOLEAN :
           CallStart("Small FFTs", up, hideRaises)
    /\ prime95_started' = IF lastResult' THEN "True" ELSE "False"
    /\ pc' = "prompt2"
    /\ UNCHANGED <<isAdmin, noCsv, ryzenOk, prime95Obj, loggerOn, pendingExc,
                   exitCause, interruptAt, reachedMonitor, stopCalls,
                   forcedLogs, rows>>
    /\ UNCHANGED <<zenvars, quadvars, csvvars, temp>>

\* line 86 left by Ctrl-C inside start_torture_test: nothing catches it.
StartLoadInterrupted ==
    /\ pc = "start_load"
    /\ prime95Obj
    /\ start_interrupted
    /\ interruptAt' = "start"
    /\ Exit("interrupt")
    /\ UNCHANGED <<callvars, isAdmin, noCsv, ryzenOk, prime95Obj, loggerOn,
                   prime95_started, pendingExc, reachedMonitor, stopCalls,
                   forcedLogs, rows>>
    /\ UNCHANGED <<zenvars, quadvars, csvvars, temp>>

\* line 91: the operator presses a key.
Prompt2 ==
    /\ pc = "prompt2"
    /\ pc' = "monitor"
    /\ UNCHANGED <<p95vars, osvars, callvars, isAdmin, noCsv, ryzenOk, prime95Obj,
                   loggerOn, prime95_started, pendingExc, exitCause, interruptAt,
                   reachedMonitor, stopCalls, forcedLogs, rows>>
    /\ UNCHANGED <<zenvars, quadvars, csvvars, temp>>

\* lines 83 and 91: Ctrl-C at a prompt raises KeyboardInterrupt outside the
\* try statement.
PromptInterrupted ==
    /\ pc \in {"prompt1", "prompt2"}
    /\ interruptAt' = pc
    /\ Exit("interrupt")
    /\ UNCHANGED <<p95vars, osvars, callvars, isAdmin, noCsv, ryzenOk, prime95Obj,
                   loggerOn, prime95_started, pendingExc, reachedMonitor,
                   stopCalls, forcedLogs, rows>>
    /\ UNCHANGED <<zenvars, quadvars, csvvars, temp>>

\* lines 94-98: the try statement is entered and the temperature is read
\* (the read turns every error into None).
MonitorTemp ==
    /\ pc = "monitor"
    /\ reachedMonitor' = TRUE
    /\ \E t \in {"value", "None"} : temp' = t
    /\ pc' = "monitor_power"
    /\ UNCHANGED <<p95vars, osvars, callvars, isAdmin, noCsv, ryzenOk, prime95Obj,
                   loggerOn, prime95_started, pendingExc, exitCause, interruptAt,
                   stopCalls, forcedLogs, rows>>
    /\ UNCHANGED <<zenvars, quadvars, csvvars>>

\* line 99: ZenStatesManager has no attribute total_power, the read raises
\* AttributeError; lines 101-107 are never reached.
MonitorPower ==
    /\ pc = "monitor_power"
    /\ pendingExc' = "AttributeError"
    /\ pc' = "finally"
    /\ UNCHANGED <<p95vars, osvars, callvars, isAdmin, noCsv, ryzenOk, prime95Obj,
                   loggerOn, prime95_started, exitCause, interruptAt,
                   reachedMonitor, stopCalls, forcedLogs, rows>>
    /\ UNCHANGED <<zenvars, quadvars, csvvars, temp>>

\* Ctrl-C inside the try statement.
MonitorInterrupted ==
    /\ pc \in {"monitor", "monitor_power"}
    /\ reachedMonitor' = TRUE
    /\ interruptAt' = "loop"
    /\ pc' = "except"
    /\ UNCHANGED <<p95vars, osvars, callvars, isAdmin, noCsv, ryzenOk, prime95Obj,
                   loggerOn, prime95_started, pendingExc, exitCause,
                   stopCalls, forcedLogs, rows>>
    /\ UNCHANGED <<zenvars, quadvars, csvvars, temp>>

\* An interrupt handler that logs whether or not logging is enabled.
ExceptKeyboardInterrupt_logging_always ==
    /\ pc = "except"
    /\ forcedLogs' = forcedLogs + 1
    /\ rows' = rows + 1
    /\ pc' = "finally"
    /\ UNCHANGED <<p95vars, osvars, callvars, isAdmin, noCsv, ryzenOk, prime95Obj,
                   loggerOn, prime95_started, pendingExc, exitCause, interruptAt,
                   reachedMonitor, stopCalls>>
    /\ UNCHANGED <<zenvars, quadvars, csvvars, temp>>

\* lines 108-112: one forced log entry when logging is enabled.
ExceptKeyboardInterrupt ==
    /\ pc = "except"
    /\ IF loggerOn
       THEN forcedLogs' = forcedLogs + 1 /\ rows' = rows + 1
       ELSE UNCHANGED <<forcedLogs, rows>>
    /\ pc' = "finally"
    /\ UNCHANGED <<p95vars, osvars, callvars, isAdmin, noCsv, ryzenOk, prime95Obj,
                   loggerOn, prime95_started, pendingExc, exitCause, interruptAt,
                   reachedMonitor, stopCalls>>
    /\ UNCHANGED <<zenvars, quadvars, csvvars, temp>>

\* lines 113-120: the load is stopped if start_torture_test returned True;
\* then a pending exception leaves the script.
Finally ==
    /\ pc = "finally"
    /\ IF prime95_started = "True"
       THEN CallStop /\ stopCalls' = stopCalls + 1
       ELSE UNCHANGED <<p95vars, osvars, callvars, stopCalls>>
    /\ IF pendingExc = "none"
       THEN pc' = "prompt_exit" /\ UNCHANGED exitCause
       ELSE Exit("exception")
    /\ UNCHANGED <<isAdmin, noCsv, ryzenOk, prime95Obj, loggerOn, prime95_started,
                   pendingExc, interruptAt, reachedMonitor, forcedLogs, rows>>
    /\ UNCHANGED <<zenvars, quadvars, csvvars, temp>>

\* lines 122-124
PromptExit ==
    /\ pc = "prompt_exit"
    /\ Exit("exit0")
    /\ UNCHANGED <<p95vars, osvars, callvars, isAdmin, noCsv, ryzenOk, prime95Obj,
                   loggerOn, prime95_started, pendingExc, interruptAt,
                   reachedMonitor, stopCalls, forcedLogs, rows>>
    /\ UNCHANGED <<zenvars, quadvars, csvvars, temp>>

Next ==
    \/ AdminCheck
    \/ Elevate
    \/ InitManagers
    \/ CheckManagers
    \/ ExitPrompt
    \/ ExitPromptInterrupted
    \/ Prompt1
    \/ StartLoadNoManager
    \/ StartLoad
    \/ StartLoadInterrupted
    \/ Prompt2
    \/ PromptInterrupted
    \/ MonitorTemp
    \/ MonitorPower
    \/ MonitorInterrupted
    \/ ExceptKeyboardInterrupt
    \/ Finally
    \/ PromptExit
    \/ ProcessExit
    \/ ExternalStart
    \/ ExternalExit

Spec == Init /\ [][Next]_vars

(***************************************************************************)
(* Claims                                                                  *)
(***************************************************************************)

\* C1: no error leaves the load driver active: when the script has ended
\* because of an exception while a Prime95 process launched by
\* start_torture_test is alive, stop_torture_test has been called.
C1_NoErrorLeavesLoadActive ==
    (pc = "exited" /\ exitCause = "exception" /\ process # 0 /\ process \in alive)
        => stopCalls >= 1

\* C2: an operator interrupt received in any state after the load was
\* started (at the second prompt as well as inside the monitoring loop) is
\* followed, before the script ends, by a stop of the load driver and by one
\* forced log entry.
C2_InterruptCleansUp ==
    (pc = "exited" /\ interruptAt # "none" /\ prime95_started = "True")
        => (stopCalls >= 1 /\ (loggerOn => forcedLogs = 1))

\* C3: after a cancellation inside the monitoring loop, stop_torture_test
\* has been called exactly once by the time the script ends.
C3_StopExactlyOnce ==
    (pc = "exited" /\ interruptAt = "loop") => stopCalls = 1

\* C4 as stated: stop_torture_test called after an already-stopped load,
\* after a failed start_torture_test or when start was never called returns
\* True and changes neither the manager's state nor any running process.
C4_StopIdempotent ==
    [][(calls' = calls + 1 /\ lastOp' = "stop"
            /\ loadHist \in {"never", "startFailed", "stopped"})
        => (lastResult' = TRUE /\ UNCHANGED <<p95vars, alive, ext, dirs>>)]_vars

\* C4 amended: stop_torture_test called after an already-stopped load, after
\* a failed start_torture_test or when start was never called, while no
\* Prime95 process is running, returns True and changes neither the
\* manager's state nor any process or directory.
C4_StopIdempotentWhenNotRunning ==
    [][(calls' = calls + 1 /\ lastOp' = "stop"
            /\ loadHist \in {"never", "startFailed", "stopped"}
            /\ ~is_prime95_running)
        => (lastResult' = TRUE /\ UNCHANGED <<p95vars, alive, ext, dirs>>)]_vars

\* Witness of C4: a stop after a failed start has returned True and left the
\* directory of the failed start and config_dir as they were.
C4_Witness ==
    /\ lastOp = "stop"
    /\ lastStopFrom = "startFailed"
    /\ lastResult = TRUE
    /\ config_dir # 0
    /\ config_dir \in dirs

\* C5: when the load driver cannot be used (Prime95 is not functional, or
\* start_torture_test returned False), the run is not aborted: a script that
\* passed the privilege and ZenStates checks and was not interrupted has
\* reached the monitoring loop when it ends.
C5_DegradedModeReachesMonitor ==
    (pc = "exited" /\ isAdmin /\ ryzenOk /\ interruptAt = "none"
        /\ (~prime95Obj \/ prime95_started = "False"))
        => reachedMonitor

\* C14: the read that verifies a just-issued PPT limit always refreshes the
\* power table: the ppt_limit setter never compares the requested value with
\* a snapshot of the power table fetched before SetPPTLimit was issued.
C14_VerifyReadIsFresh ==
    zOp = "set" => zCompared # "stale"

\* C15 as stated: the verification is retried up to 3 times, so an
\* assignment whose SetPPTLimit was issued fails only after the third
\* comparison still disagrees.
C15_FailsOnlyAfterRetries ==
    (zOp = "set" /\ zOutcome = "ValueError" /\ zCompared # "none")
        => zVerifyReads = 3

\* C15 as the code has it: an assignment whose SetPPTLimit was issued makes
\* one comparison, a second after the set, and no retry; it succeeds exactly
\* when that comparison finds int(value) and raises ValueError otherwise,
\* also when the hardware shows the requested limit only later.
C15_SingleVerification ==
    (zOp = "set" /\ zCompared # "none")
        => /\ zVerifyReads = 1
           /\ (zOutcome = "ok") = (zResult = zReq)
           /\ (zOutcome = "ValueError") = (zResult # zReq)

\* An assignment failed although the hardware had accepted the limit and
\* showed it afterwards.
C15_Witness ==
    /\ zOp = "set" /\ zOutcome = "ValueError" /\ zCompared = "fresh"
    /\ zVerifyReads = 1
    /\ hw = "ok" /\ hwLimit = zReq /\ zResult # zReq

\* C16: assigning ppt_limit returns normally only if the PPT limit read back
\* after the set equals int(value): whenever the assignment reports success
\* the power table of the hardware shows int(value) at that moment.
C16_SuccessMeansLimitSet ==
    (zOp = "set" /\ zOutcome = "ok") => zShown = zReq

\* C17: a read of temperature, package_power or ppt_limit whose hardware
\* call failed is never returned as None, the result of an unavailable value.
C17_FailureDistinctFromUnavailable ==
    (zOp \in {"temperature", "package_power", "ppt_limit"} /\ zHwCond = "fail")
        => zResult # 0

\* C18: a sensor gap is not fatal: when the temperature read of the
\* monitoring loop is unavailable or fails (it returns None), the loop goes
\* on and is left only by an operator interrupt.
C18_SensorGapNotFatal ==
    (temp = "None" /\ pc \notin {"monitor", "monitor_power"})
        => interruptAt = "loop"

\* C19: when the device is not present, a call of temperatures returns
\* [None, None, None, None] without raising (a call answered from a cache
\* that is still valid is not counted): a call made with an expired cache
\* and the device absent returns all None, unless the device comes back.
C19_AbsentDeviceReadsAllNone ==
    (qPc = "called" /\ ~qPresent
        /\ qNow - q_last_read_time > QuadroConstants_CACHE_INTERVAL)
        ~> ((qPc = "idle" /\ qResult = "allNone") \/ qPresent)

\* C20: every poll is a bounded wait: a call of temperatures returns, also
\* when the connected device delivers no packet or its reads keep failing
\* with OSError.
C20_ReadReturns ==
    (qPc # "idle") ~> (qPc = "idle")

\* C25: start_torture_test returns True only if the process launched by that
\* very call was seen running by its start-up poll: a call that returns True
\* has launched a process and that process is running when it returns.
C25_StartTrueMeansOwnProcessRunning ==
    [][(calls' = calls + 1 /\ lastOp' = "start" /\ lastResult' = TRUE)
        => (nLaunched' = nLaunched + 1 /\ process' = nLaunched'
            /\ process' \in alive')]_vars

\* C26: whenever stop_torture_test returns True no Prime95 process, tracked
\* or foreign, is running at that moment: is_prime95_running() evaluated
\* right after the return is False.
C26_StopTrueMeansNothingRunning ==
    [][(calls' = calls + 1 /\ lastOp' = "stop" /\ lastResult' = TRUE)
        => ~is_prime95_running']_vars

\* C23: privilege gate: a process for which is_admin() is false never
\* accesses the hardware managers, starts the load or writes a log; it asks
\* for an elevated relaunch and exits, elevate() never returns to it.
C23_PrivilegeGate ==
    ~isAdmin =>
        /\ pc \in {"admin_check", "elevate", "exited"}
        /\ pc = "exited" => exitCause \in {"elevate", "exit1"}
        /\ ~ryzenOk /\ ~prime95Obj /\ ~loggerOn
        /\ calls = 0 /\ nLaunched = 0 /\ rows = 0

\* A process without privileges has asked for the relaunch and has exited.
C23_Witness ==
    ~isAdmin /\ pc = "exited" /\ exitCause = "elevate"

\* C24 as stated: when the first die temperature is None the run ends with
\* exit status 1, before the load is started and before a CSV file exists.
C24_NoTemperatureExitsWithStatus1 ==
    (isAdmin /\ ~ryzenOk /\ pc = "exited")
        => (exitCause = "exit1" /\ calls = 0 /\ nLaunched = 0 /\ rows = 0)

\* C24 as the code has it: when the first die temperature is None the load
\* is never started and no CSV file is created; the script waits at the
\* "Press any key to exit" prompt and ends there, with exit status 1 when a
\* key is pressed and with a KeyboardInterrupt when the operator interrupts.
C24_NoTemperatureEndsBeforeLoad ==
    (isAdmin /\ ~ryzenOk /\ pc \notin {"admin_check", "init_managers",
                                        "check_managers"})
        => /\ pc \in {"exit_prompt", "exited"}
           /\ calls = 0 /\ nLaunched = 0 /\ rows = 0
           /\ pc = "exited" =>
                  \/ exitCause = "exit1" /\ interruptAt = "none"
                  \/ exitCause = "interrupt" /\ interruptAt = "exit_prompt"

\* The run without ZenStates has ended with status 1, a logger configured.
C24_Witness ==
    isAdmin /\ ~ryzenOk /\ ~noCsv /\ pc = "exited" /\ exitCause = "exit1"

\* C29: with CSV logging disabled (--no-csv) no CSV file is created or
\* written at any point of the run, operator interrupt included.
C29_NoCsvWritesNothing ==
    noCsv => (~loggerOn /\ rows = 0 /\ forcedLogs = 0)

\* A run with --no-csv was interrupted in the monitoring loop and has ended.
C29_Witness ==
    noCsv /\ pc = "exited" /\ interruptAt = "loop"

\* C28: bounded staleness of the power-table cache: every value ppt_limit
\* or package_power returns, the verification read of an assignment
\* included, was fetched from the hardware no more than cache_lifetime
\* before the read, and a read made within cache_lifetime of the last
\* successful refresh makes no hardware refresh.
C28_BoundedStaleness ==
    /\ (zOp \in {"ppt_limit", "package_power", "set"} /\ zResult # 0)
           => zAge <= CACHE_INTERVAL
    /\ (zOp \in {"ppt_limit", "package_power"} /\ zWithin)
           => zHwCond = "cached"

\* A read was answered from a cache exactly cache_lifetime old.
C28_Witness ==
    /\ zOp \in {"ppt_limit", "package_power"}
    /\ zHwCond = "cached" /\ zResult # 0 /\ zAge = CACHE_INTERVAL

\* C22: the telemetry sink is append-only: no operation of the logger
\* removes or rewrites a row already in the file, what was in the file
\* before the run is kept, and the header row is written at most once and
\* only when the file did not exist before the first log.
C22_AppendOnly ==
    /\ [][Len(file') >= Len(file) /\ SubSeq(file', 1, Len(file)) = file]_vars
    /\ [](Cardinality({i \in DOMAIN file : file[i].kind = "header"}) <= 1)
    /\ []((\E i \in DOMAIN file : file[i].kind = "header") => ~cExisted)

\* Two rows were logged to a file that was there before, after its old row.
C22_Witness ==
    /\ cExisted /\ Len(file) = 3 /\ file[1] = OldRow
    /\ file[2].kind = "data" /\ file[3].kind = "data"

\* C27: log_values writes one data row (after the header, when it makes the
\* file) and returns True if and only if force is set or at least
\* logging_interval has passed since the last written row; otherwise it
\* returns False and leaves the file, file_created and last_log_time as they
\* were; so two unforced rows are never closer than logging_interval.
C27_LogsExactlyWhenDue ==
    /\ [][(cSeq' # cSeq /\ cOp' = "log_values") =>
            IF cForce' \/ cNow - last_log_time >= logging_interval
            THEN /\ cResult' = TRUE
                 /\ file' = Append(create_file_if_needed, DataRow(cForce'))
                 /\ last_log_time' = cNow
            ELSE /\ cResult' = FALSE
                 /\ UNCHANGED <<file, file_created, last_log_time>>]_vars
    /\ [](\A i, j \in DOMAIN file :
            (i < j /\ file[i].kind = "data" /\ file[j].kind = "data"
                /\ ~file[i].forced /\ ~file[j].forced)
                => file[j].t >= file[i].t + logging_interval)

\* An unforced call made too early has returned False, after two unforced
\* rows written exactly logging_interval apart.
C27_Witness ==
    /\ cOp = "log_values" /\ ~cForce /\ ~cResult
    /\ \E i, j \in DOMAIN file :
           /\ i < j /\ file[i].kind = "data" /\ file[j].kind = "data"
           /\ ~file[i].forced /\ ~file[j].forced
           /\ file[j].t = file[i].t + logging_interval

\* C30: after any sequence of add_value_source, set_column_names and
\* log_values calls every data row of the file has exactly the fields of the
\* header row (Timestamp and one per column), in the header's column order.
C30_RowsMatchHeader ==
    \A i, j \in DOMAIN file :
        (file[i].kind = "header" /\ file[j].kind = "data")
            => file[j].cols = file[i].cols


\* C31 as stated: a value source that raises does not abort logging.  Every
\* call of log_values that is due, made while a source of value_sources
\* raises, writes the row and returns True; the column of a raising source
\* holds the ERROR marker, the column of any other source holds that
\* source's value, and a column without a source holds "N/A".
C31_RaisingSourceNeverAborts ==
    [][(/\ cSeq' # cSeq
        /\ cOp' = "log_values"
        /\ cForce' \/ cNow - last_log_time >= logging_interval
        /\ \E name \in value_sources : raises[name] # "none")
       => /\ cResult' = TRUE
          /\ ~cRaised'
          /\ file' = Append(create_file_if_needed, DataRow(cForce'))
          /\ Len(cRow') = Len(column_names)
          /\ \A i \in 1 .. Len(column_names) :
                 cRow'[i] = IF column_names[i] \notin value_sources
                            THEN [kind |-> "N/A", of |-> column_names[i]]
                            ELSE IF raises[column_names[i]] # "none"
                            THEN [kind |-> "ERROR", of |-> column_names[i]]
                            ELSE [kind |-> "value", of |-> column_names[i]]]_vars

\* C31, amended: a value source that raises an Exception does not abort
\* logging.  While no source raises anything else, a due call of log_values
\* writes the row and returns True, with the ERROR marker in the column of
\* the raising source, its own source's value in every other column that
\* has a source, and "N/A" in a column without one.  A KeyboardInterrupt
\* raised by a source leaves log_values: no row is written, last_log_time
\* stays, and the file has been created by then.
C31_ExceptionInSourceDoesNotAbort ==
    /\ [][(/\ cSeq' # cSeq
           /\ cOp' = "log_values"
           /\ cForce' \/ cNow - last_log_time >= logging_interval
           /\ \E name \in value_sources : raises[name] = "Exception"
           /\ \A name \in value_sources : raises[name] # "KeyboardInterrupt")
          => /\ cResult' = TRUE
             /\ ~cRaised'
             /\ file' = Append(create_file_if_needed, DataRow(cForce'))
             /\ Len(cRow') = Len(column_names)
             /\ \A i \in 1 .. Len(column_names) :
                    cRow'[i] = IF column_names[i] \notin value_sources
                               THEN [kind |-> "N/A", of |-> column_names[i]]
                               ELSE IF raises[column_names[i]] = "Exception"
                               THEN [kind |-> "ERROR", of |-> column_names[i]]
                               ELSE [kind |-> "value", of |-> column_names[i]]]_vars
    /\ [][(/\ cSeq' # cSeq
           /\ cOp' = "log_values"
           /\ cForce' \/ cNow - last_log_time >= logging_interval
           /\ \E name \in value_sources : raises[name] = "KeyboardInterrupt")
          => /\ cRaised'
             /\ file' = create_file_if_needed
             /\ file_created'
             /\ last_log_time' = last_log_time]_vars

\* A row was written with the ERROR marker of a raising source next to the
\* value of a source that returned.
C31_Witness ==
    /\ cOp = "log_values"
    /\ cResult
    /\ \E i, j \in DOMAIN cRow : cRow[i].kind = "ERROR" /\ cRow[j].kind = "value"


\* C32: a start_torture_test called while a Prime95 process is running, or
\* with a test type that is not valid, returns False and launches no
\* process and creates no configuration directory: the manager and the
\* operating system are as they were.  The manager never has two processes
\* it launched alive at the same time.
C32_RefusedStartHasNoEffect ==
    /\ [][(/\ calls' # calls
           /\ lastOp' = "start"
           /\ \/ alive # {}
              \/ ext # {}
              \/ lastTestType' \notin {"Small FFTs", "Large FFTs", "Blend"})
          => /\ lastResult' = FALSE
             /\ UNCHANGED <<process, running, config_dir>>
             /\ UNCHANGED <<alive, ext, dirs, nLaunched, nDirs>>]_vars
    /\ [](Cardinality(alive) <= 1)

\* A start was refused for its test type while the process launched by an
\* earlier start was alive.
C32_Witness ==
    /\ lastOp = "start"
    /\ lastTestType = "Bogus"
    /\ lastResult = FALSE
    /\ process = 1
    /\ alive = {1}
    /\ nLaunched = 1
    /\ nDirs = 1


\* C33: once a stop_torture_test has returned True, every temporary
\* configuration directory the earlier calls of start_torture_test created
\* has been removed and config_dir is None, whatever starts, process exits
\* and stops came before.
C33_StopTrueMeansDirectoriesRemoved ==
    (lastOp = "stop" /\ lastResult = TRUE) => (dirs = {} /\ config_dir = 0)

=============================================================================
